---- MODULE Spec2Model ----
\* Model of ServoAI_centerbox2.py: the scan/track control loop of run(), the
\* detector callback save_result(), and the servo helpers set_angle(),
\* move_servo_continuous() and move_servo_to_center().
EXTENDS Integers, Sequences, FiniteSets, TLC

\* ------------------------------------------------------------------ bounds
\* Number of detector callbacks modelled in one run.
MaxPublish == 4
\* Largest number of detections in one result.
MaxDet == 2
\* Frames the detector may hold before it drops a newly submitted one.
MaxPending == 1
\* Number of detector callbacks in the runs whose progress is examined.
MaxPublishFair == 3

\* ------------------------------------------------------- program constants
frame_width == 640
frame_height == 480
tolerance == 20
scan_step == 10
track_step == 5
lock_threshold == 2
angle_min == 0
angle_max == 180
initial_angle == 0
initial_direction == 1

frame_center_x == frame_width \div 2
frame_center_y == frame_height \div 2

Abs(x) == IF x < 0 THEN -x ELSE x

\* The bounding box the detector reports in the control-loop specification:
\* left of and above the frame center (center (200,100); odd width, so that
\* the floor division shows), which makes move_servo_to_center correct on
\* both axes.
Boxes ==
    { [origin_x |-> 180, origin_y |-> 80, width |-> 41, height |-> 40] }

\* The stored angles the sweep can leave behind.
SweepAngles == { a \in angle_min .. angle_max : a % scan_step = 0 }

\* A bounding box centered at (200,240), left of the frame center.
LeftBox == [origin_x |-> 180, origin_y |-> 220, width |-> 40, height |-> 40]

\* Bounding boxes for move_servo_to_center taken alone: centers on
\* both sides of, on and next to the deadband's edges.
CenterBoxes ==
    { [origin_x |-> ox, origin_y |-> oy, width |-> w, height |-> 40] :
        ox \in {180, 279, 280, 300, 305, 320, 321, 325},
        oy \in {80, 199, 200, 220, 240, 241},
        w \in {40, 41} }

RECURSIVE SeqsUpTo(_, _)
SeqsUpTo(S, n) ==
    IF n = 0 THEN { <<>> }
    ELSE LET shorter == SeqsUpTo(S, n - 1)
         IN  shorter \cup { Append(s, x) : s \in { t \in shorter : Len(t) = n - 1 }, x \in S }

\* The results the detector may deliver (result.detections).
Results == SeqsUpTo(Boxes, MaxDet)

Ids == 1 .. (MaxPublish + 1)

VARIABLES
    servo_angle,            \* global servo_angle
    servo_direction,        \* global servo_direction
    detection_result_list,  \* run(): detection_result_list
    detection_count,        \* run(): detection_count
    led,                    \* level last written to led_pin
    pc,                     \* position of the main thread in run()
    cur,                    \* the result whose detections the for loop iterates
    idx,                    \* index of the next detection of cur
    cmds,                   \* set_angle calls of the current cycle, in order
    pending,                \* frames submitted to the detector, not yet answered
    released,               \* resources released after the loop, in order
    nextId,                 \* number of callbacks so far, plus one
    handled,                \* per result: cycles whose for loop iterated it
    takesAt,                \* per result: results read by the loop before its callback
    takes,                  \* results read by the loop so far
    prevTake,               \* outcome of the last but one test of the list in Tracking
    lastTake,               \* outcome of the last test of the list in Tracking
    pubBetween,             \* whether a callback ran after the earlier of the two
                            \* was over (list cleared or found empty) and before the later
    pubSinceTake,           \* whether a callback ran since the list was last cleared
                            \* or found empty
    qualified,              \* callbacks so far whose result had 2 or more detections
    streak,                 \* such callbacks in a row, up to 2; stays 2 once reached
    mode                    \* branch of line 126 taken by the last cycle

vars == << servo_angle, servo_direction, detection_result_list, detection_count,
           led, pc, cur, idx, cmds, pending, released, nextId, handled, takesAt,
           takes, prevTake, lastTake, pubBetween, pubSinceTake, qualified, streak,
           mode >>

servoVars == << servo_angle, servo_direction >>
takeVars == << takes, prevTake, lastTake, pubBetween >>
ghostVars == << handled, takesAt, takes, prevTake, lastTake, pubBetween, pubSinceTake,
               qualified, streak >>

NoResult == [id |-> 0, detections |-> <<>>]

\* ----------------------------------------------------------------- helpers
\* set_angle(angle): drives the servo to angle; it assigns no variable of the
\* program. c is the cycle's calls so far, tag the caller's branch.
set_angle(c, tag, angle) == Append(c, [tag |-> tag, angle |-> angle])

\* bbox.origin_x + bbox.width // 2, bbox.origin_y + bbox.height // 2
bbox_center_x(bbox) == bbox.origin_x + bbox.width \div 2
bbox_center_y(bbox) == bbox.origin_y + bbox.height \div 2

\* move_servo_to_center with a deadband that excludes its edge (>= tolerance).
move_servo_to_center_ge(c, a, cx, cy, fx, fy) ==
    LET c1 == IF Abs(cx - fx) >= tolerance
              THEN IF cx < fx
                   THEN set_angle(c, "left", a - track_step)
                   ELSE set_angle(c, "right", a + track_step)
              ELSE c
    IN  IF Abs(cy - fy) >= tolerance
        THEN IF cy < fy
             THEN set_angle(c1, "up", a + track_step)
             ELSE set_angle(c1, "down", a - track_step)
        ELSE c1

\* move_servo_to_center with the horizontal signs exchanged.
move_servo_to_center_swapped(c, a, cx, cy, fx, fy) ==
    LET c1 == IF Abs(cx - fx) > tolerance
              THEN IF cx < fx
                   THEN set_angle(c, "left", a + track_step)
                   ELSE set_angle(c, "right", a - track_step)
              ELSE c
    IN  IF Abs(cy - fy) > tolerance
        THEN IF cy < fy
             THEN set_angle(c1, "up", a + track_step)
             ELSE set_angle(c1, "down", a - track_step)
        ELSE c1

\* move_servo_to_center: the calls it adds to c when the stored angle is a.
move_servo_to_center(c, a, cx, cy, fx, fy) ==
    LET c1 == IF Abs(cx - fx) > tolerance
              THEN IF cx < fx
                   THEN set_angle(c, "left", a - track_step)
                   ELSE set_angle(c, "right", a + track_step)
              ELSE c
    IN  IF Abs(cy - fy) > tolerance
        THEN IF cy < fy
             THEN set_angle(c1, "up", a + track_step)
             ELSE set_angle(c1, "down", a - track_step)
        ELSE c1

\* move_servo_continuous: the angle and the direction it leaves behind.
ScanAngle(a, d) == a + scan_step * d

\* The direction with the bounds tested by > and < in place of >= and <=.
ScanDirectionStrict(a, d) ==
    IF ScanAngle(a, d) > angle_max \/ ScanAngle(a, d) < angle_min THEN -d ELSE d

ScanDirection(a, d) ==
    IF ScanAngle(a, d) >= angle_max \/ ScanAngle(a, d) <= angle_min THEN -d ELSE d

\* save_result with the threshold of one detection.
CountAfterOne(count, detections) ==
    IF Len(detections) >= 1 THEN count + 1 ELSE count

\* save_result with a streak that a result of fewer than 2 detections resets.
CountAfterReset(count, detections) ==
    IF Len(detections) >= 2 THEN count + 1 ELSE 0

\* save_result: the new detection_count.
CountAfter(count, detections) ==
    IF Len(detections) >= 2 THEN count + 1 ELSE count

\* The list left as it is.
Kept(list) == list

\* The list without its first element, as detection_result_list.pop(0) leaves it.
Popped(list) == Tail(list)

\* detection_result_list.clear()
Cleared(list) == << >>

\* ------------------------------------------------------------------- Init
\* run() before its first cycle, the servo globals apart.
InitRun ==
    /\ detection_result_list = << >>
    /\ detection_count = 0
    /\ led = "LOW"
    /\ cur = NoResult
    /\ idx = 0
    /\ cmds = << >>
    /\ pending = 0
    /\ released = << >>
    /\ nextId = 1
    /\ handled = [i \in Ids |-> 0]
    /\ takesAt = [i \in Ids |-> 0]
    /\ takes = 0
    /\ prevTake = "none"
    /\ lastTake = "none"
    /\ pubBetween = FALSE
    /\ pubSinceTake = FALSE
    /\ qualified = 0
    /\ streak = 0
    /\ mode = "none"

Init ==
    /\ servo_angle = initial_angle
    /\ servo_direction = initial_direction
    /\ pc = "capture"
    /\ InitRun

\* ---------------------------------------------------------------- actions
\* Lines 118-123: capture a frame and hand it to the detector.
CaptureSubmit ==
    /\ pc = "capture"
    /\ pending' = IF pending < MaxPending THEN pending + 1 ELSE pending
    /\ cmds' = << >>
    /\ pc' = "branch"
    /\ UNCHANGED << servoVars, detection_result_list, detection_count, led, cur, idx,
                    released, nextId, ghostVars, mode >>

\* Lines 68-74: move_servo_continuous(), c the cycle's set_angle calls so far.
move_servo_continuous(c) ==
    /\ cmds' = set_angle(c, "scan", servo_angle)
    /\ servo_angle' = ScanAngle(servo_angle, servo_direction)
    /\ servo_direction' = ScanDirection(servo_angle, servo_direction)

\* Lines 126-127: detection_count < 2, one step of the sweep.
ScanCycle ==
    /\ pc = "branch"
    /\ detection_count < lock_threshold
    /\ move_servo_continuous(cmds)
    /\ mode' = "scan"
    /\ pc' = "waitkey"
    /\ UNCHANGED << detection_result_list, detection_count, led, cur, idx, pending,
                    released, nextId, ghostVars >>

\* Lines 128-132: Tracking, the list is not empty: its first element is read.
\* The callback only appends, so element 0 is the same at lines 130, 131 and
\* 132 and the three reads are one step.
TrackTake ==
    /\ pc = "branch"
    /\ detection_count >= lock_threshold
    /\ detection_result_list # << >>
    /\ cur' = detection_result_list[1]
    /\ idx' = 1
    /\ mode' = "track"
    /\ pc' = "loop"
    /\ handled' = [handled EXCEPT ![detection_result_list[1].id] = @ + 1]
    /\ takes' = takes + 1
    /\ prevTake' = lastTake
    /\ lastTake' = "batch"
    /\ pubBetween' = pubSinceTake
    /\ UNCHANGED << servoVars, detection_result_list, detection_count, led, cmds,
                    pending, released, nextId, takesAt, pubSinceTake, qualified, streak >>

\* Lines 128-130, 143-144: Tracking, the list is empty: LED off.
TrackEmpty ==
    /\ pc = "branch"
    /\ detection_count >= lock_threshold
    /\ detection_result_list = << >>
    /\ led' = "LOW"
    /\ mode' = "track"
    /\ pc' = "waitkey"
    /\ prevTake' = lastTake
    /\ lastTake' = "empty"
    /\ pubBetween' = pubSinceTake
    /\ pubSinceTake' = FALSE
    /\ UNCHANGED << servoVars, detection_result_list, detection_count, cur, idx, cmds,
                    pending, released, nextId, handled, takesAt, takes, qualified, streak >>

\* The for loop's iteration if set_angle stored the angle it was given: each
\* call starts from the angle of the call before it.
TrackDetectionAccumulating ==
    /\ pc = "loop"
    /\ idx <= Len(cur.detections)
    /\ cmds' = move_servo_to_center(cmds,
                                    IF cmds = << >> THEN servo_angle
                                                    ELSE cmds[Len(cmds)].angle,
                                    bbox_center_x(cur.detections[idx]),
                                    bbox_center_y(cur.detections[idx]),
                                    frame_center_x, frame_center_y)
    /\ idx' = idx + 1
    /\ UNCHANGED << servoVars, detection_result_list, detection_count, led, pc, cur,
                    pending, released, nextId, ghostVars, mode >>

\* Lines 132-138: one iteration of the for loop, with the set_angle calls
\* (0.5 s each) of move_servo_to_center; the callback may run before and after.
TrackDetection ==
    /\ pc = "loop"
    /\ idx <= Len(cur.detections)
    /\ cmds' = move_servo_to_center(cmds, servo_angle,
                                    bbox_center_x(cur.detections[idx]),
                                    bbox_center_y(cur.detections[idx]),
                                    frame_center_x, frame_center_y)
    /\ idx' = idx + 1
    /\ UNCHANGED << servoVars, detection_result_list, detection_count, led, pc, cur,
                    pending, released, nextId, ghostVars, mode >>

\* Lines 140-141: after the loop, LED on and the list cleared, with all the
\* callback appended since line 130.
LedClear ==
    /\ pc = "loop"
    /\ idx > Len(cur.detections)
    /\ led' = "HIGH"
    /\ detection_result_list' = Cleared(detection_result_list)
    /\ pc' = "waitkey"
    /\ pubSinceTake' = FALSE
    /\ UNCHANGED << servoVars, detection_count, cur, idx, cmds, pending, released,
                    nextId, handled, takesAt, takeVars, qualified, streak, mode >>

\* Line 152: no ESC, the loop goes on.
WaitKeyContinue ==
    /\ pc = "waitkey"
    /\ pc' = "capture"
    /\ UNCHANGED << servoVars, detection_result_list, detection_count, led, cur, idx,
                    cmds, pending, released, nextId, ghostVars, mode >>

\* Lines 152-153: ESC, break.
WaitKeyEsc ==
    /\ pc = "waitkey"
    /\ pc' = "close"
    /\ UNCHANGED << servoVars, detection_result_list, detection_count, led, cur, idx,
                    cmds, pending, released, nextId, ghostVars, mode >>

\* run() going on to pwm.stop() without detector.close().
DetectorCloseSkipped ==
    /\ pc = "close"
    /\ pc' = "pwm_stop"
    /\ UNCHANGED << servoVars, detection_result_list, detection_count, led, cur, idx,
                    cmds, pending, released, nextId, ghostVars, mode >>

\* Line 155: detector.close(); no callback runs after it.
DetectorClose ==
    /\ pc = "close"
    /\ released' = Append(released, "detector")
    /\ pending' = 0
    /\ pc' = "pwm_stop"
    /\ UNCHANGED << servoVars, detection_result_list, detection_count, led, cur, idx,
                    cmds, nextId, ghostVars, mode >>

\* Line 156: pwm.stop()
PwmStop ==
    /\ pc = "pwm_stop"
    /\ released' = Append(released, "pwm")
    /\ pc' = "cleanup"
    /\ UNCHANGED << servoVars, detection_result_list, detection_count, led, cur, idx,
                    cmds, pending, nextId, ghostVars, mode >>

\* Line 157: GPIO.cleanup()
GpioCleanup ==
    /\ pc = "cleanup"
    /\ released' = Append(released, "gpio")
    /\ pc' = "done"
    /\ UNCHANGED << servoVars, detection_result_list, detection_count, led, cur, idx,
                    cmds, pending, nextId, ghostVars, mode >>

\* Lines 103-107: the detector's callback, on the detector's thread, for one
\* of the frames it holds. It is the only writer of detection_count, and the
\* main loop reads the list only when detection_count >= 2, so its append and
\* its increment are one step.
save_result(detections) ==
    /\ pending > 0
    /\ detection_result_list' =
           Append(detection_result_list, [id |-> nextId, detections |-> detections])
    /\ detection_count' = CountAfter(detection_count, detections)
    /\ pending' = pending - 1
    /\ takesAt' = [takesAt EXCEPT ![nextId] = takes]
    /\ nextId' = nextId + 1
    /\ pubSinceTake' = TRUE
    /\ qualified' = IF Len(detections) > 1 THEN qualified + 1 ELSE qualified
    /\ streak' = IF streak = 2 THEN 2 ELSE IF Len(detections) > 1 THEN streak + 1 ELSE 0
    /\ UNCHANGED << servoVars, led, pc, cur, idx, cmds, released, handled, takeVars, mode >>

\* The callback with any of the results.
SaveResult ==
    /\ nextId <= MaxPublish
    /\ \E detections \in Results : save_result(detections)

\* The steps of the main thread: the while loop of run() and what follows it.
MainStep ==
    \/ CaptureSubmit
    \/ ScanCycle
    \/ TrackTake
    \/ TrackEmpty
    \/ TrackDetection
    \/ LedClear
    \/ WaitKeyContinue
    \/ WaitKeyEsc
    \/ DetectorClose
    \/ PwmStop
    \/ GpioCleanup

Next ==
    \/ CaptureSubmit
    \/ ScanCycle
    \/ TrackTake
    \/ TrackEmpty
    \/ TrackDetection
    \/ LedClear
    \/ WaitKeyContinue
    \/ WaitKeyEsc
    \/ DetectorClose
    \/ PwmStop
    \/ GpioCleanup
    \/ SaveResult

Spec == Init /\ [][Next]_vars

\* ------------------------------------------- one Tracking cycle on a result
\* The for loop and lines 140-141 of one Tracking cycle that has just read a
\* result, for any stored angle the sweep can leave behind and any result
\* over four boxes: centered at (325,240), inside the deadband on both axes;
\* at (200,240), left; at (345,300), right and below; at (320,100), above.
TrackBoxes ==
    { [origin_x |-> 305, origin_y |-> 220, width |-> 40, height |-> 40],
      LeftBox,
      [origin_x |-> 325, origin_y |-> 280, width |-> 41, height |-> 40],
      [origin_x |-> 300, origin_y |-> 80, width |-> 40, height |-> 41] }

BatchInit ==
    /\ servo_angle \in SweepAngles
    /\ servo_direction \in {1, -1}
    /\ pc = "loop"
    /\ \E detections \in SeqsUpTo(TrackBoxes, MaxDet) :
           /\ cur = [id |-> 1, detections |-> detections]
           /\ detection_result_list = << [id |-> 1, detections |-> detections] >>
    /\ detection_count = lock_threshold
    /\ led = "LOW"
    /\ idx = 1
    /\ cmds = << >>
    /\ pending = 0
    /\ released = << >>
    /\ nextId = 2
    /\ handled = [i \in Ids |-> IF i = 1 THEN 1 ELSE 0]
    /\ takesAt = [i \in Ids |-> 0]
    /\ takes = 1
    /\ prevTake = "none"
    /\ lastTake = "batch"
    /\ pubBetween = TRUE
    /\ pubSinceTake = TRUE
    /\ qualified = lock_threshold
    /\ streak = lock_threshold
    /\ mode = "track"

BatchNext ==
    \/ TrackDetection
    \/ LedClear

BatchSpec == BatchInit /\ [][BatchNext]_vars

\* ------------------------------------------------- run() that keeps running
\* The same loop and callback, with fewer callbacks, and a main thread none
\* of whose steps stays enabled for ever without being taken (set_angle
\* sleeps 0.5 s, waitKey waits 1 ms, nothing else waits).
FairSaveResult ==
    /\ nextId <= MaxPublishFair
    /\ \E detections \in Results : save_result(detections)

FairNext ==
    \/ CaptureSubmit
    \/ ScanCycle
    \/ TrackTake
    \/ TrackEmpty
    \/ TrackDetection
    \/ LedClear
    \/ WaitKeyContinue
    \/ WaitKeyEsc
    \/ DetectorClose
    \/ PwmStop
    \/ GpioCleanup
    \/ FairSaveResult

FairSpec == Init /\ [][FairNext]_vars /\ WF_vars(MainStep)

\* ------------------------------------------------- a fixed run of results
\* run() with a 640x480 frame and a detector that delivers two results of 2
\* detections each and then one result with a single detection centered at
\* (200,240).
ScenarioResult(n) ==
    IF n <= 2 THEN LET bbox == CHOOSE b \in Boxes : TRUE IN << bbox, bbox >>
    ELSE << LeftBox >>

ScenarioSaveResult ==
    /\ nextId <= 3
    /\ save_result(ScenarioResult(nextId))

ScenarioNext ==
    \/ CaptureSubmit
    \/ ScanCycle
    \/ TrackTake
    \/ TrackEmpty
    \/ TrackDetection
    \/ LedClear
    \/ WaitKeyContinue
    \/ WaitKeyEsc
    \/ DetectorClose
    \/ PwmStop
    \/ GpioCleanup
    \/ ScenarioSaveResult

ScenarioSpec == Init /\ [][ScenarioNext]_vars

\* ------------------------------------------- move_servo_continuous alone
\* Repeated calls of move_servo_continuous() from any stored angle in
\* [0,180] and either direction.
ScanInit ==
    /\ servo_angle \in angle_min .. angle_max
    /\ servo_direction \in {1, -1}
    /\ pc = "scan"
    /\ InitRun

ScanOnly ==
    /\ pc = "scan"
    /\ move_servo_continuous(<< >>)
    /\ UNCHANGED << detection_result_list, detection_count, led, pc, cur, idx, pending,
                    released, nextId, ghostVars, mode >>

ScanNext == ScanOnly

ScanSpec == ScanInit /\ [][ScanNext]_vars

\* -------------------------------------------- move_servo_to_center alone
\* One call of move_servo_to_center() for one detection, from any stored
\* angle the sweep can leave behind.
CenterInit ==
    /\ servo_angle \in SweepAngles
    /\ servo_direction \in {1, -1}
    /\ pc = "center"
    /\ detection_result_list = << >>
    /\ detection_count = lock_threshold
    /\ led = "LOW"
    /\ \E bbox \in CenterBoxes : cur = [id |-> 1, detections |-> << bbox >>]
    /\ idx = 1
    /\ cmds = << >>
    /\ pending = 0
    /\ released = << >>
    /\ nextId = 2
    /\ handled = [i \in Ids |-> 0]
    /\ takesAt = [i \in Ids |-> 0]
    /\ takes = 0
    /\ prevTake = "none"
    /\ lastTake = "none"
    /\ pubBetween = FALSE
    /\ pubSinceTake = FALSE
    /\ qualified = lock_threshold
    /\ streak = lock_threshold
    /\ mode = "track"

CenterOnly ==
    /\ pc = "center"
    /\ cmds' = move_servo_to_center(<< >>, servo_angle,
                                    bbox_center_x(cur.detections[idx]),
                                    bbox_center_y(cur.detections[idx]),
                                    frame_center_x, frame_center_y)
    /\ pc' = "centered"
    /\ UNCHANGED << servoVars, detection_result_list, detection_count, led, cur, idx,
                    pending, released, nextId, ghostVars, mode >>

CenterNext == CenterOnly

CenterSpec == CenterInit /\ [][CenterNext]_vars

\* ================================================================ claims
InRange(a) == angle_min <= a /\ a <= angle_max
Last(list) == list[Len(list)]
ListIds == { detection_result_list[i].id : i \in 1 .. Len(detection_result_list) }
Published == 1 .. (nextId - 1)
\* The step of line 130-132 that hands a result to the for loop.
TakeStep == pc = "branch" /\ pc' = "loop"
\* A step of the callback.
PublishStep == nextId' # nextId

\* C1: whenever the controller takes a result, with results published since
\* the last take, the result handed to the for loop is the one published
\* last (B2 after B1, B2), never an earlier one.
C1_TakeReturnsLatest ==
    [][TakeStep => cur'.id = Last(detection_result_list).id]_vars

\* C2: every published result is still pending, or was handed to the for
\* loop by exactly one take, or was superseded by a later result published
\* before the next take; none is dropped unseen.
C2_NoResultDropped ==
    \A id \in Published :
        \/ id \in ListIds
        \/ handled[id] = 1
        \/ (id + 1 \in Published /\ takesAt[id + 1] = takesAt[id])

\* C3: no result is handed to the for loop in more than one cycle.
C3_NoDoubleDelivery ==
    \A id \in Ids : handled[id] <= 1

\* C3 witness: a second cycle has taken a result after an earlier one did.
C3_Witness ==
    /\ takes >= 2
    /\ pc = "loop"
    /\ \E id \in Published : id # cur.id /\ handled[id] = 1

\* C4: when a take returned a result and no callback ran between the clear
\* that ended it and the next test of the list, that test finds the list empty.
C4_DrainedAfterTake ==
    (prevTake = "batch" /\ ~pubBetween) => lastTake = "empty"

\* C4 witness: a take returned a result, no callback ran, and the next
\* cycle took the no-result path.
C4_Witness ==
    prevTake = "batch" /\ ~pubBetween /\ lastTake = "empty" /\ led = "LOW"

\* C5: the list never holds more than one result that the loop has not read.
C5_AtMostOnePending ==
    Len(detection_result_list) <= 1

\* C6: a cycle runs the sweep when detection_count < 2 and the Tracking
\* branch when detection_count >= 2, and once a cycle has run the Tracking
\* branch no later cycle runs the sweep.
C6_ScanTrackLatch ==
    [][ /\ (pc = "branch" /\ pc' # "branch") =>
               mode' = IF detection_count < lock_threshold THEN "scan" ELSE "track"
        /\ mode = "track" => mode' = "track" ]_vars

\* C6 witness: a Tracking cycle, after an earlier one, reads a result of
\* fewer than 2 detections.
C6_Witness ==
    /\ mode = "track"
    /\ pc = "loop"
    /\ takes >= 2
    /\ Len(cur.detections) < 2

\* C7: detection_count never decreases; a callback with 2 or more
\* detections adds exactly 1, a callback with fewer leaves it, and so does
\* every step of the main loop.
C7_LockStreakMonotone ==
    [][ /\ detection_count' >= detection_count
        /\ PublishStep =>
               detection_count' = detection_count +
                   (IF Len(Last(detection_result_list').detections) >= 2 THEN 1 ELSE 0)
        /\ ~PublishStep => detection_count' = detection_count ]_vars

\* C7 witness: callbacks of both kinds have run, and the main loop after them.
C7_Witness ==
    /\ detection_count >= 1
    /\ nextId - 1 > detection_count
    /\ pc = "waitkey"

\* C8: every angle passed to set_angle lies in [0,180].
C8_CommandsInRange ==
    \A i \in 1 .. Len(cmds) : InRange(cmds[i].angle)

IsHorizontal(cmd) == cmd.tag \in {"left", "right"}
IsVertical(cmd) == cmd.tag \in {"up", "down"}

\* C10: for one detection, move_servo_to_center calls set_angle for the
\* horizontal axis iff |cx - fx| > 20 and for the vertical axis iff
\* |cy - fy| > 20, once each at most and in that order; the horizontal call
\* passes angle-5 when cx < fx and angle+5 otherwise, the vertical call
\* angle+5 when cy < fy and angle-5 otherwise.
C10_Deadband ==
    pc = "centered" =>
        LET cx == bbox_center_x(cur.detections[1])
            cy == bbox_center_y(cur.detections[1])
            h == SelectSeq(cmds, IsHorizontal)
            v == SelectSeq(cmds, IsVertical)
            farX == cx - frame_center_x > 20 \/ frame_center_x - cx > 20
            farY == cy - frame_center_y > 20 \/ frame_center_y - cy > 20
        IN  /\ cmds = h \o v
            /\ Len(h) = IF farX THEN 1 ELSE 0
            /\ Len(v) = IF farY THEN 1 ELSE 0
            /\ farX => h[1].angle = IF cx < frame_center_x THEN servo_angle - 5
                                                            ELSE servo_angle + 5
            /\ farY => v[1].angle = IF cy < frame_center_y THEN servo_angle + 5
                                                            ELSE servo_angle - 5

\* C10 witness: frame center (320,240); a detection centered at (345,240)
\* got exactly one call, angle+5, and one centered at (325,240) gets none.
C10_Witness ==
    /\ pc = "centered"
    /\ bbox_center_x(cur.detections[1]) = 345
    /\ bbox_center_y(cur.detections[1]) = 240
    /\ frame_center_x = 320 /\ frame_center_y = 240
    /\ cmds = << [tag |-> "right", angle |-> servo_angle + 5] >>
    /\ move_servo_to_center(<< >>, servo_angle, 325, 240, 320, 240) = << >>

\* C11: at the end of a cycle the LED is on only if that cycle ran the
\* Tracking branch on a result that holds at least one detection; it is off
\* after a sweep cycle, after a Tracking cycle that found the list empty, and
\* after a Tracking cycle whose result holds no detection.
C11_IndicatorCoupling ==
    (pc = "waitkey" /\ led = "HIGH") =>
        (mode = "track" /\ lastTake = "batch" /\ Len(cur.detections) > 0)

\* The end of the cycle that read the third result of the fixed run.
ThirdConsumed == pc = "waitkey" /\ lastTake = "batch" /\ cur.id = 3

\* C12 as stated: in the fixed run the controller is in Tracking once the
\* second result is published, and the cycle that reads the third result
\* makes exactly one set_angle call, a horizontal one with an angle above
\* the stored one, and ends with the LED on.
C12_ScenarioIncreasing ==
    /\ nextId >= 3 => detection_count >= lock_threshold
    /\ ThirdConsumed =>
           /\ mode = "track"
           /\ Len(cmds) = 1
           /\ IsHorizontal(cmds[1])
           /\ cmds[1].angle > servo_angle
           /\ led = "HIGH"

\* C12 amended: as above, but the one horizontal call passes the stored
\* angle minus 5 (target left of center: decreasing angle).
C12_ScenarioDecreasing ==
    /\ nextId >= 3 => detection_count >= lock_threshold
    /\ ThirdConsumed =>
           /\ mode = "track"
           /\ Len(cmds) = 1
           /\ IsHorizontal(cmds[1])
           /\ cmds[1].angle = servo_angle - 5
           /\ led = "HIGH"

\* C12 witness: the third result was read by a Tracking cycle, which made
\* its one call and turned the LED on.
C12_Witness ==
    /\ ThirdConsumed
    /\ bbox_center_x(cur.detections[1]) = 200
    /\ bbox_center_y(cur.detections[1]) = 240
    /\ Len(cmds) = 1
    /\ led = "HIGH"

\* C13: when a set_angle(d) call of the Tracking branch has returned, the
\* stored angle is d.
C13_SetAngleUpdatesState ==
    (pc = "loop" /\ cmds # << >>) => servo_angle = Last(cmds).angle

LoopPcs == {"capture", "branch", "loop", "waitkey"}
\* The step of line 126 onwards that decides what a cycle does.
BranchStep == pc = "branch" /\ pc' # "branch"

\* C14: without a callback, (a) a controller with detection_count < 2 keeps
\* it below 2 and each of its cycles makes exactly one set_angle call, the
\* sweep's; (b) once a Tracking cycle is over and no callback has run since
\* it cleared the list or found it empty, the next cycle makes no set_angle
\* call, leaves the stored angle and ends with the LED off; and the main
\* thread always has a next step while it is in the loop.
C14_GracefulDegradation ==
    /\ [](pc \in LoopPcs => ENABLED MainStep)
    /\ [][ /\ (~PublishStep /\ detection_count < 2) => detection_count' < 2
           /\ (BranchStep /\ detection_count < 2) =>
                  /\ pc' = "waitkey"
                  /\ cmds' = << [tag |-> "scan", angle |-> servo_angle] >>
           /\ (BranchStep /\ detection_count >= 2 /\ lastTake # "none" /\ ~pubSinceTake) =>
                  /\ pc' = "waitkey"
                  /\ cmds' = << >>
                  /\ led' = "LOW"
                  /\ servo_angle' = servo_angle ]_vars

\* C14 witness: two Tracking cycles in a row found the list empty, with no
\* callback between them, after an earlier one had read a result.
C14_Witness ==
    /\ pc = "waitkey"
    /\ takes >= 1
    /\ prevTake = "empty" /\ lastTake = "empty" /\ ~pubBetween
    /\ cmds = << >>
    /\ led = "LOW"

StopPcs == {"close", "pwm_stop", "cleanup", "done"}

\* C15: a cycle that reads a result makes at most two set_angle calls per
\* detection and its for loop advances by one detection per iteration, so
\* every cycle that starts reaches the ESC test of line 152; after ESC no
\* frame is submitted, no set_angle call is made and the LED is not written;
\* the detector, the PWM and the GPIO are each released once, in that
\* order, and all three when run() is over.
C15_StopAndRelease ==
    /\ [](/\ pc = "loop" =>
                /\ idx <= Len(cur.detections) + 1
                /\ Len(cmds) <= 2 * (idx - 1)
          /\ pc \in LoopPcs => released = << >>
          /\ \A i, j \in 1 .. Len(released) : released[i] = released[j] => i = j
          /\ pc = "done" => released = << "detector", "pwm", "gpio" >>)
    /\ [][ /\ (pc = "loop" /\ pc' = "loop" /\ idx' # idx) => (idx' = idx + 1 /\ cur' = cur)
           /\ pc \in StopPcs =>
                  /\ pc' \in StopPcs
                  /\ cmds' = cmds
                  /\ led' = led
                  /\ pending' <= pending ]_vars
    /\ (pc = "branch") ~> (pc = "waitkey")

\* C15 witness: run() is over after a Tracking cycle, all three released.
C15_Witness ==
    /\ pc = "done"
    /\ takes >= 1
    /\ released = << "detector", "pwm", "gpio" >>

\* C16 as stated: a cycle runs the Tracking branch only after two results
\* of 2 or more detections were delivered one right after the other.
C16_ConsecutiveStreak ==
    mode = "track" => streak = 2

\* C16 amended: a cycle runs the Tracking branch only after two results of
\* 2 or more detections were delivered, whatever was delivered between them.
C16_TwoQualifyingResults ==
    mode = "track" => qualified >= 2

\* C16 witness: a cycle ran the Tracking branch although no two results of
\* 2 or more detections followed one another.
C16_Witness ==
    mode = "track" /\ qualified >= 2 /\ streak < 2

\* The angles one detection alone makes move_servo_to_center pass to
\* set_angle when the stored angle is a: the horizontal one, then the
\* vertical one.
ExpectedAngles(a, bbox) ==
    LET cx == bbox_center_x(bbox)
        cy == bbox_center_y(bbox)
        h == IF cx - frame_center_x > 20 \/ frame_center_x - cx > 20
             THEN << IF cx < frame_center_x THEN a - 5 ELSE a + 5 >>
             ELSE << >>
        v == IF cy - frame_center_y > 20 \/ frame_center_y - cy > 20
             THEN << IF cy < frame_center_y THEN a + 5 ELSE a - 5 >>
             ELSE << >>
    IN  h \o v

RECURSIVE ExpectedAll(_, _)
ExpectedAll(a, detections) ==
    IF detections = << >> THEN << >>
    ELSE ExpectedAngles(a, Head(detections)) \o ExpectedAll(a, Tail(detections))

CmdAngles == [i \in 1 .. Len(cmds) |-> cmds[i].angle]
\* The detections of the result read that make a set_angle call.
Commanding == { i \in 1 .. Len(cur.detections) :
                  ExpectedAngles(servo_angle, cur.detections[i]) # << >> }
Max(S) == CHOOSE x \in S : \A y \in S : y <= x

\* C17 as stated: at the end of a Tracking cycle on a result, the set_angle
\* calls were made in the result's order, horizontal before vertical for
\* each detection, and the last angle commanded is the last one that the
\* last detection of the result, taken alone, commands.
C17_LastDetectionWins ==
    (pc = "waitkey" /\ cur.detections # << >>) =>
        /\ CmdAngles = ExpectedAll(servo_angle, cur.detections)
        /\ cmds # << >> =>
               /\ Len(cur.detections) \in Commanding
               /\ Last(cmds).angle =
                      Last(ExpectedAngles(servo_angle, Last(cur.detections)))

\* C17 amended: as above, but the last angle commanded is the last one
\* commanded by the last detection that lies outside the deadband on an
\* axis, taken alone; detections before it have no effect on it.
C17_LastCommandingDetectionWins ==
    (pc = "waitkey" /\ cur.detections # << >>) =>
        /\ CmdAngles = ExpectedAll(servo_angle, cur.detections)
        /\ cmds # << >> =>
               /\ Commanding # {}
               /\ Last(cmds).angle =
                      Last(ExpectedAngles(servo_angle, cur.detections[Max(Commanding)]))
        /\ cmds = << >> => Commanding = {}

\* C17 witness: a cycle on a result of two detections that both command,
\* the first another angle than the last; the last one's angle stands.
C17_Witness ==
    /\ pc = "waitkey"
    /\ Len(cur.detections) = 2
    /\ Commanding = {1, 2}
    /\ cmds[1].angle # Last(cmds).angle
    /\ Last(cmds).angle = Last(ExpectedAngles(servo_angle, cur.detections[2]))

\* C18: from the program's start (angle 0, direction +1) the stored angle
\* is always a multiple of 10 in [0,180], every angle the sweep commands
\* lies in [0,180], and a sweep step reverses the direction exactly when it
\* brings the stored angle to 0 or to 180; no other step reverses it.
C18_SweepFromStart ==
    /\ [](/\ servo_angle % 10 = 0
          /\ 0 <= servo_angle /\ servo_angle <= 180
          /\ \A i \in 1 .. Len(cmds) :
                 cmds[i].tag = "scan" => (0 <= cmds[i].angle /\ cmds[i].angle <= 180))
    /\ [][ /\ servo_angle' # servo_angle =>
                  ((servo_direction' # servo_direction) <=>
                       (servo_angle' = 0 \/ servo_angle' = 180))
           /\ servo_angle' = servo_angle => servo_direction' = servo_direction ]_vars

\* C18 witness: the sweep went up to 180 and came back to 0, where it has
\* just turned upwards again.
C18_Witness ==
    /\ pc = "waitkey"
    /\ mode = "scan"
    /\ servo_angle = 0
    /\ servo_direction = 1
    /\ cmds = << [tag |-> "scan", angle |-> 10] >>

\* C19: once a cycle has run the Tracking branch, no step changes the
\* stored angle or the direction, and every angle commanded is the stored
\* angle minus 5 or plus 5, however many results are read.
C19_TrackingNeverAccumulates ==
    [][ mode' = "track" =>
            /\ servo_angle' = servo_angle
            /\ servo_direction' = servo_direction
            /\ \A i \in 1 .. Len(cmds') :
                   cmds'[i].angle = servo_angle - 5 \/ cmds'[i].angle = servo_angle + 5 ]_vars

\* C19 witness: a second Tracking cycle on a result commands, as the first
\* did, the stored angle minus 5 and plus 5.
C19_Witness ==
    /\ mode = "track"
    /\ pc = "waitkey"
    /\ takes >= 2
    /\ lastTake = "batch"
    /\ Len(cmds) >= 2
    /\ cmds[1].angle = servo_angle - 5
    /\ cmds[2].angle = servo_angle + 5

====
